---- MODULE Spec2Model ----
(***************************************************************************)
(* Model of src/llm/main.py: the LLM recommendation service.               *)
(*                                                                         *)
(* Two listeners share one process: the gRPC servicer                      *)
(* MealRecommendationService.RecommendMeal, served by a thread pool, and   *)
(* the FastAPI endpoint POST /recommend.  RecommendMeal validates its two  *)
(* lists, formats the shared prompt template, calls the completion         *)
(* provider once through OpenWebUILLM._call and turns every outcome into a *)
(* MealRecommendationResponse.                                             *)
(*                                                                         *)
(* Text is modelled as a sequence of one-character strings, so that        *)
(* str.strip, str.join and f-string concatenation are computed character   *)
(* by character.  An optional value is a sequence of length 0 (None) or 1. *)
(***************************************************************************)
EXTENDS Integers, Sequences, FiniteSets, TLC

(***************************************************************************)
(* Bounds of the model.                                                    *)
(***************************************************************************)
\* RPC worker threads modelled (the code's pool has GRPC_MAX_WORKERS).
NumWorkers == 2
\* Longest favorite_meals list a caller sends in the single-invocation scope.
MaxFavs == 2
\* Longest today_menu list a caller sends in the single-invocation scope.
MaxMenu == 1

\* futures.ThreadPoolExecutor(max_workers=10)
GRPC_MAX_WORKERS == 10

\* the threads of the RPC pool that the model runs
Workers == 1 .. (IF NumWorkers < GRPC_MAX_WORKERS THEN NumWorkers ELSE GRPC_MAX_WORKERS)

(***************************************************************************)
(* String literals of the source, character by character.                  *)
(***************************************************************************)
\* "No recommendation available"
NO_RECOMMENDATION == << "N", "o", " ", "r", "e", "c", "o", "m", "m", "e", "n", "d",
    "a", "t", "i", "o", "n", " ", "a", "v", "a", "i", "l", "a", "b", "l", "e" >>

\* "No favorite meals provided"
NO_FAVORITES_REASON == << "N", "o", " ", "f", "a", "v", "o", "r", "i", "t", "e", " ",
    "m", "e", "a", "l", "s", " ", "p", "r", "o", "v", "i", "d", "e", "d" >>

\* "No meals available today"
NO_MENU_REASON == << "N", "o", " ", "m", "e", "a", "l", "s", " ", "a", "v", "a", "i",
    "l", "a", "b", "l", "e", " ", "t", "o", "d", "a", "y" >>

\* "Error generating recommendation"
ERROR_NAME == << "E", "r", "r", "o", "r", " ", "g", "e", "n", "e", "r", "a", "t",
    "i", "n", "g", " ", "r", "e", "c", "o", "m", "m", "e", "n", "d", "a", "t", "i",
    "o", "n" >>

\* "An error occurred: "
ERROR_PREFIX == << "A", "n", " ", "e", "r", "r", "o", "r", " ", "o", "c", "c", "u",
    "r", "r", "e", "d", ":", " " >>

\* "Recommended based on your favorites: "
DONE_PREFIX == << "R", "e", "c", "o", "m", "m", "e", "n", "d", "e", "d", " ", "b",
    "a", "s", "e", "d", " ", "o", "n", " ", "y", "o", "u", "r", " ", "f", "a", "v",
    "o", "r", "i", "t", "e", "s", ":", " " >>

\* ", "
COMMA_SPACE == << ",", " " >>

\* "CHAIR_API_KEY environment variable is required"
API_KEY_REQUIRED == << "C", "H", "A", "I", "R", "_", "A", "P", "I", "_", "K", "E",
    "Y", " ", "e", "n", "v", "i", "r", "o", "n", "m", "e", "n", "t", " ", "v", "a",
    "r", "i", "a", "b", "l", "e", " ", "i", "s", " ", "r", "e", "q", "u", "i", "r",
    "e", "d" >>

\* "API request failed: "
API_REQUEST_FAILED == << "A", "P", "I", " ", "r", "e", "q", "u", "e", "s", "t", " ",
    "f", "a", "i", "l", "e", "d", ":", " " >>

\* "Failed to parse API response: "
FAILED_TO_PARSE == << "F", "a", "i", "l", "e", "d", " ", "t", "o", " ", "p", "a",
    "r", "s", "e", " ", "A", "P", "I", " ", "r", "e", "s", "p", "o", "n", "s", "e",
    ":", " " >>

\* "Unexpected response format from API"
UNEXPECTED_FORMAT == << "U", "n", "e", "x", "p", "e", "c", "t", "e", "d", " ", "r",
    "e", "s", "p", "o", "n", "s", "e", " ", "f", "o", "r", "m", "a", "t", " ", "f",
    "r", "o", "m", " ", "A", "P", "I" >>

\* "favorite_menu cannot be empty"
FAVORITE_MENU_EMPTY == << "f", "a", "v", "o", "r", "i", "t", "e", "_", "m", "e", "n",
    "u", " ", "c", "a", "n", "n", "o", "t", " ", "b", "e", " ", "e", "m", "p", "t",
    "y" >>

\* "todays_menu cannot be empty"
TODAYS_MENU_EMPTY == << "t", "o", "d", "a", "y", "s", "_", "m", "e", "n", "u", " ",
    "c", "a", "n", "n", "o", "t", " ", "b", "e", " ", "e", "m", "p", "t", "y" >>

\* "Failed to generate recommendation: "
FAILED_TO_GENERATE == << "F", "a", "i", "l", "e", "d", " ", "t", "o", " ", "g", "e",
    "n", "e", "r", "a", "t", "e", " ", "r", "e", "c", "o", "m", "m", "e", "n", "d",
    "a", "t", "i", "o", "n", ":", " " >>

\* "'message'"
KEY_MESSAGE == << "'", "m", "e", "s", "s", "a", "g", "e", "'" >>

\* "'content'"
KEY_CONTENT == << "'", "c", "o", "n", "t", "e", "n", "t", "'" >>

\* "'NoneType' object has no attribute 'strip'"
NONE_HAS_NO_STRIP == << "'", "N", "o", "n", "e", "T", "y", "p", "e", "'", " ", "o",
    "b", "j", "e", "c", "t", " ", "h", "a", "s", " ", "n", "o", " ", "a", "t", "t",
    "r", "i", "b", "u", "t", "e", " ", "'", "s", "t", "r", "i", "p", "'" >>

\* "Read timed out. (read timeout=30)"
READ_TIMED_OUT == << "R", "e", "a", "d", " ", "t", "i", "m", "e", "d", " ", "o", "u",
    "t", ".", " ", "(", "r", "e", "a", "d", " ", "t", "i", "m", "e", "o", "u", "t",
    "=", "3", "0", ")" >>

\* "Connection refused"
CONNECTION_REFUSED == << "C", "o", "n", "n", "e", "c", "t", "i", "o", "n", " ", "r",
    "e", "f", "u", "s", "e", "d" >>

\* "502 Server Error: Bad Gateway"
SERVER_ERROR == << "5", "0", "2", " ", "S", "e", "r", "v", "e", "r", " ", "E", "r",
    "r", "o", "r", ":", " ", "B", "a", "d", " ", "G", "a", "t", "e", "w", "a",
    "y" >>

\* "Expecting value: line 1 column 1 (char 0)"
EXPECTING_VALUE == << "E", "x", "p", "e", "c", "t", "i", "n", "g", " ", "v", "a",
    "l", "u", "e", ":", " ", "l", "i", "n", "e", " ", "1", " ", "c", "o", "l", "u",
    "m", "n", " ", "1", " ", "(", "c", "h", "a", "r", " ", "0", ")" >>

\* "Pizza"
Pizza == << "P", "i", "z", "z", "a" >>

\* "Pasta"
Pasta == << "P", "a", "s", "t", "a" >>

\* "Sushi"
Sushi == << "S", "u", "s", "h", "i" >>

\* Provider answers used as inputs: padded, with interior blanks, all blank.
PADDED_PIZZA == << " ", " " >> \o Pizza \o << " ", "\n" >>

TWO_WORDS == << "\t" >> \o Pizza \o << " " >> \o Pasta \o << " " >>

BLANK == << " ", "\n" >>

(***************************************************************************)
(* Pure helpers: Python's str and list operations.                         *)
(***************************************************************************)
None == << >>

Some(x) == << x >>

\* the characters str.strip() removes (a representative set of whitespace)
IsSpace(c) == c \in {" ", "\t", "\n"}

RECURSIVE LStrip(_)
LStrip(s) == IF s # << >> /\ IsSpace(Head(s)) THEN LStrip(Tail(s)) ELSE s

RECURSIVE RStrip(_)
RStrip(s) ==
    IF s # << >> /\ IsSpace(s[Len(s)]) THEN RStrip(SubSeq(s, 1, Len(s) - 1)) ELSE s

\* a plausible slip: only the leading whitespace is removed
StripLeadingOnly(s) == LStrip(s)

\* str.strip()
Strip(s) == RStrip(LStrip(s))

\* sep.join(items)
RECURSIVE Join(_, _)
Join(sep, items) ==
    IF items = << >> THEN << >>
    ELSE IF Len(items) = 1 THEN items[1]
    ELSE items[1] \o sep \o Join(sep, Tail(items))

\* all sequences over S of length at most n
RECURSIVE SeqsUpTo(_, _)
SeqsUpTo(S, n) ==
    IF n = 0 THEN {<< >>}
    ELSE LET shorter == SeqsUpTo(S, n - 1)
         IN  shorter \cup {Append(q, x) : q \in {p \in shorter : Len(p) = n - 1}, x \in S}

\* sub in text: sub occurs as a contiguous run of text
IsInfix(sub, text) ==
    \E i \in 0 .. (Len(text) - Len(sub)) : SubSeq(text, i + 1, i + Len(sub)) = sub

(***************************************************************************)
(* Exceptions: the classes an exception object is an instance of, and      *)
(* str(e).                                                                 *)
(***************************************************************************)
Exc(classes, msg) == [classes |-> classes \cup {"Exception"}, msg |-> msg]

IsInstance(e, class) == class \in e.classes

Str(e) == e.msg

(***************************************************************************)
(* The completion provider's endpoint, as the environment: what one        *)
(* requests.post to API_URL can do.                                        *)
(***************************************************************************)
Behaviour(kind, text) == [kind |-> kind, text |-> text]

\* requests.post raises, raise_for_status raises, or response.json() raises
TransportFailures ==
    { Behaviour("Timeout", READ_TIMED_OUT),
      Behaviour("ConnectionError", CONNECTION_REFUSED),
      Behaviour("HTTPError", SERVER_ERROR),
      Behaviour("InvalidJSON", EXPECTING_VALUE) }

\* a 200 response whose JSON body lacks the completion text
MalformedPayloads ==
    { Behaviour("NoChoices", << >>),
      Behaviour("EmptyChoices", << >>),
      Behaviour("NoMessage", << >>),
      Behaviour("NoContent", << >>),
      Behaviour("NullContent", << >>) }

\* a 200 response with choices[0].message.content = text
Completions(texts) == { Behaviour("Content", t) : t \in texts }

(***************************************************************************)
(* OpenWebUILLM._call                                                      *)
(***************************************************************************)
\* `if not self.api_key: raise ValueError(...)`, before the try block
CallPrecheck(client) ==
    IF client.api_key = None
    THEN Some(Exc({"ValueError"}, API_KEY_REQUIRED))
    ELSE None

\* the try block: post, raise_for_status, json(), extraction of the content.
\* Result: [ok |-> TRUE, value |-> text] or [ok |-> FALSE, exc |-> exception].
CallTry(b) ==
    CASE b.kind = "Timeout" ->
            [ok |-> FALSE, exc |-> Exc({"RequestException", "Timeout"}, b.text)]
      [] b.kind = "ConnectionError" ->
            [ok |-> FALSE, exc |-> Exc({"RequestException", "ConnectionError"}, b.text)]
      [] b.kind = "HTTPError" ->
            [ok |-> FALSE, exc |-> Exc({"RequestException", "HTTPError"}, b.text)]
      [] b.kind = "InvalidJSON" ->
            [ok |-> FALSE,
             exc |-> Exc({"RequestException", "JSONDecodeError", "ValueError"}, b.text)]
      [] b.kind \in {"NoChoices", "EmptyChoices"} ->
            [ok |-> FALSE, exc |-> Exc({"ValueError"}, UNEXPECTED_FORMAT)]
      [] b.kind = "NoMessage" ->
            [ok |-> FALSE, exc |-> Exc({"KeyError", "LookupError"}, KEY_MESSAGE)]
      [] b.kind = "NoContent" ->
            [ok |-> FALSE, exc |-> Exc({"KeyError", "LookupError"}, KEY_CONTENT)]
      [] b.kind = "NullContent" ->
            [ok |-> FALSE, exc |-> Exc({"AttributeError"}, NONE_HAS_NO_STRIP)]
      [] OTHER -> [ok |-> TRUE, value |-> Strip(b.text)]

\* the except clauses of _call, in source order
CallExcept(r) ==
    IF r.ok THEN r
    ELSE IF IsInstance(r.exc, "RequestException")
    THEN [ok |-> FALSE, exc |-> Exc({}, API_REQUEST_FAILED \o Str(r.exc))]
    ELSE IF \E c \in {"KeyError", "IndexError", "ValueError"} : IsInstance(r.exc, c)
    THEN [ok |-> FALSE, exc |-> Exc({}, FAILED_TO_PARSE \o Str(r.exc))]
    ELSE r

\* the whole of _call once the request is posted
Call(b) == CallExcept(CallTry(b))

(***************************************************************************)
(* Module-level singletons: llm = OpenWebUILLM() and recommendation_prompt *)
(***************************************************************************)
API_KEY == << "k", "e", "y" >>

\* OpenWebUILLM(): api_key is CHAIR_API_KEY from the environment, or None
OpenWebUILLM(key) ==
    [api_url |-> "https://gpu.aet.cit.tum.de/api/chat/completions",
     api_key |-> key,
     model_name |-> "llama3:latest"]

\* The template as its literal pieces and its two placeholders.
PromptTemplate ==
    [input_variables |-> << "favorite_menu", "todays_menu" >>,
     template |->
        << [lit |-> "You are a helpful food recommendation assistant. User's favorite meals: "],
           [var |-> "favorite_menu"],
           [lit |-> " Today's available meals: "],
           [var |-> "todays_menu"],
           [lit |-> " Respond with ONLY the exact name of one dish from today's menu. Recommendation:"] >>]

\* PromptTemplate.format: each placeholder replaced by its input, literals kept
Format(template, inputs) ==
    [i \in 1 .. Len(template) |->
        IF "var" \in DOMAIN template[i]
        THEN [val |-> inputs[template[i].var]]
        ELSE template[i]]

\* a plausible slip: the shared template is formatted in place
PromptInvokeInPlace(tpl, inputs) ==
    [prompt |-> Format(tpl.template, inputs),
     self |-> [tpl EXCEPT !.template = Format(tpl.template, inputs)]]

\* recommendation_prompt's part of recommendation_chain.invoke: the prompt it
\* yields and the template object afterwards (format does not mutate it)
PromptInvoke(tpl, inputs) ==
    [prompt |-> Format(tpl.template, inputs), self |-> tpl]

(***************************************************************************)
(* MealRecommendationService.RecommendMeal, piece by piece                 *)
(***************************************************************************)
Response(name, reasoning) == [recommended_meal_name |-> name, reasoning |-> reasoning]

\* today_menu = [meal.name for meal in request.today_menu]
MenuNames(items) == [i \in 1 .. Len(items) |-> items[i].name]

\* a plausible slip: the menu is checked before the favorites
ValidateMenuFirst(favorite_meals, today_menu) ==
    IF today_menu = << >> THEN "NoMenu"
    ELSE IF favorite_meals = << >> THEN "NoFavorites"
    ELSE "Invoke"

\* a plausible slip: the menu check is missing
ValidateFavoritesOnly(favorite_meals, today_menu) ==
    IF favorite_meals = << >> THEN "NoFavorites" ELSE "Invoke"

\* the two early returns, in source order
Validate(favorite_meals, today_menu) ==
    IF favorite_meals = << >> THEN "NoFavorites"
    ELSE IF today_menu = << >> THEN "NoMenu"
    ELSE "Invoke"

NoFavoritesResponse == Response(NO_RECOMMENDATION, NO_FAVORITES_REASON)

NoMenuResponse == Response(NO_RECOMMENDATION, NO_MENU_REASON)

\* the response of the success path
DoneResponse(recommendation, favorite_meals_str) ==
    Response(Strip(recommendation), DONE_PREFIX \o favorite_meals_str)

\* a plausible slip: the handler reports a fixed text, without str(e)
ErrorResponseNoCause(e) == Response(ERROR_NAME, ERROR_PREFIX)

\* the response of `except Exception as e`
ErrorResponse(e) == Response(ERROR_NAME, ERROR_PREFIX \o Str(e))

(***************************************************************************)
(* State                                                                   *)
(***************************************************************************)
VARIABLES
    env,                    \* the callers and the provider endpoint: what they may send
    llm,                    \* the shared OpenWebUILLM instance
    recommendation_prompt,  \* the shared PromptTemplate instance
    pc,                     \* per RPC worker: where its RecommendMeal invocation is
    request,                \* per worker: the request being served
    prompt,                 \* per worker: the prompt sent to the provider
    reply,                  \* per worker: what the provider endpoint did
    recommendation,         \* per worker: the value recommendation_chain.invoke returned
    exc,                    \* per worker: the exception invoke raised
    response,               \* per worker: the MealRecommendationResponse returned
    calls,                  \* per worker: calls of OpenWebUILLM._call in this invocation
    http                    \* the last exchange on POST /recommend

vars == << env, llm, recommendation_prompt, pc, request, prompt, reply,
           recommendation, exc, response, calls, http >>

shared == << env, llm, recommendation_prompt >>

Terminal == {"NoFavorites", "NoMenu", "ProviderFailure", "Done"}

\* what a caller may put into one RPC request
Request(favorite_meals, menu) ==
    [user_id |-> "user-1",
     favorite_meals |-> favorite_meals,
     today_menu |-> [i \in 1 .. Len(menu) |-> [name |-> menu[i]]]]

MealNames == {Pizza, Pasta}

\* one invocation at a time, over every request and provider behaviour
EnvSingle ==
    [workers |-> {1},
     favorites |-> SeqsUpTo(MealNames, MaxFavs),
     menus |-> SeqsUpTo(MealNames, MaxMenu),
     http_lists |-> SeqsUpTo({Pizza}, 1),
     behaviours |-> TransportFailures \cup MalformedPayloads
                    \cup Completions({Pizza, Sushi, PADDED_PIZZA, TWO_WORDS, BLANK})]

\* the whole pool, over a few requests and provider behaviours
EnvPool ==
    [workers |-> Workers,
     favorites |-> SeqsUpTo({Pizza}, 1),
     menus |-> SeqsUpTo({Pizza}, 1),
     http_lists |-> SeqsUpTo({Pizza}, 1),
     behaviours |-> {Behaviour("Timeout", READ_TIMED_OUT)}
                    \cup Completions({Sushi, PADDED_PIZZA})]

InitWith(e) ==
    /\ env = e
    /\ \E key \in {None, API_KEY} : llm = OpenWebUILLM(key)
    /\ recommendation_prompt = PromptTemplate
    /\ pc = [w \in Workers |-> "Idle"]
    /\ request = [w \in Workers |-> None]
    /\ prompt = [w \in Workers |-> None]
    /\ reply = [w \in Workers |-> None]
    /\ recommendation = [w \in Workers |-> None]
    /\ exc = [w \in Workers |-> None]
    /\ response = [w \in Workers |-> None]
    /\ calls = [w \in Workers |-> 0]
    /\ http = None

Init == InitWith(EnvSingle)

InitPool == InitWith(EnvPool)

(***************************************************************************)
(* RecommendMeal as steps of one worker thread.  The thread blocks in      *)
(* requests.post, so other threads run between its steps.                  *)
(***************************************************************************)
favorite_meals_str(w) == Join(COMMA_SPACE, request[w][1].favorite_meals)

\* From the request to the first point where the thread blocks or returns:
\* the two early returns, the prompt, and the entry into _call.
RecommendMeal_Begin(w) ==
    /\ pc[w] = "Idle"
    /\ \E favs \in env.favorites, menu \in env.menus :
        LET req == Request(favs, menu)
            favorite_meals == req.favorite_meals
            today_menu == MenuNames(req.today_menu)
            next == Validate(favorite_meals, today_menu)
            built == PromptInvoke(recommendation_prompt,
                                  [favorite_menu |-> Join(COMMA_SPACE, favorite_meals),
                                   todays_menu |-> Join(COMMA_SPACE, today_menu)])
            early == CallPrecheck(llm)
        IN  /\ request' = [request EXCEPT ![w] = Some(req)]
            /\ IF next = "NoFavorites"
               THEN /\ pc' = [pc EXCEPT ![w] = "NoFavorites"]
                    /\ response' = [response EXCEPT ![w] = Some(NoFavoritesResponse)]
                    /\ UNCHANGED << recommendation_prompt, prompt, exc, calls >>
               ELSE IF next = "NoMenu"
               THEN /\ pc' = [pc EXCEPT ![w] = "NoMenu"]
                    /\ response' = [response EXCEPT ![w] = Some(NoMenuResponse)]
                    /\ UNCHANGED << recommendation_prompt, prompt, exc, calls >>
               ELSE /\ recommendation_prompt' = built.self
                    /\ prompt' = [prompt EXCEPT ![w] = Some(built.prompt)]
                    /\ calls' = [calls EXCEPT ![w] = @ + 1]
                    /\ exc' = [exc EXCEPT ![w] = early]
                    /\ pc' = [pc EXCEPT ![w] = IF early = None THEN "Invoke" ELSE "Raised"]
                    /\ UNCHANGED response
    /\ UNCHANGED << env, llm, reply, recommendation, http >>

\* The provider endpoint answers, fails or times out, and _call finishes:
\* it returns the stripped content or raises.
ProviderReply(w) ==
    /\ pc[w] = "Invoke"
    /\ \E b \in env.behaviours :
        LET r == Call(b)
        IN  /\ reply' = [reply EXCEPT ![w] = Some(b)]
            /\ IF r.ok
               THEN /\ recommendation' = [recommendation EXCEPT ![w] = Some(r.value)]
                    /\ pc' = [pc EXCEPT ![w] = "Normalize"]
                    /\ UNCHANGED exc
               ELSE /\ exc' = [exc EXCEPT ![w] = Some(r.exc)]
                    /\ pc' = [pc EXCEPT ![w] = "Raised"]
                    /\ UNCHANGED recommendation
    /\ UNCHANGED << shared, request, prompt, response, calls, http >>

\* invoke returned: the success response
RecommendMeal_Return(w) ==
    /\ pc[w] = "Normalize"
    /\ response' = [response EXCEPT
                      ![w] = Some(DoneResponse(recommendation[w][1], favorite_meals_str(w)))]
    /\ pc' = [pc EXCEPT ![w] = "Done"]
    /\ UNCHANGED << shared, request, prompt, reply, recommendation, exc, calls, http >>

\* a plausible slip: the handler lets the exception escape to the transport
RecommendMeal_Reraise(w) ==
    /\ pc[w] = "Raised"
    /\ pc' = [pc EXCEPT ![w] = "Fault"]
    /\ UNCHANGED << shared, request, prompt, reply, recommendation, exc, response,
                    calls, http >>

\* a plausible slip: the handler calls the provider again
RecommendMeal_Retry(w) ==
    /\ pc[w] = "Raised"
    /\ calls[w] < 3
    /\ calls' = [calls EXCEPT ![w] = @ + 1]
    /\ pc' = [pc EXCEPT ![w] = "Invoke"]
    /\ UNCHANGED << shared, request, prompt, reply, recommendation, exc, response, http >>

\* invoke raised: `except Exception as e` builds the error response
RecommendMeal_Except(w) ==
    /\ pc[w] = "Raised"
    /\ response' = [response EXCEPT ![w] = Some(ErrorResponse(exc[w][1]))]
    /\ pc' = [pc EXCEPT ![w] = "ProviderFailure"]
    /\ UNCHANGED << shared, request, prompt, reply, recommendation, exc, calls, http >>

\* The response goes to the caller and the thread returns to the pool; the
\* locals of the invocation are gone.
Release(w) ==
    /\ pc[w] \in Terminal
    /\ pc' = [pc EXCEPT ![w] = "Idle"]
    /\ request' = [request EXCEPT ![w] = None]
    /\ prompt' = [prompt EXCEPT ![w] = None]
    /\ reply' = [reply EXCEPT ![w] = None]
    /\ recommendation' = [recommendation EXCEPT ![w] = None]
    /\ exc' = [exc EXCEPT ![w] = None]
    /\ response' = [response EXCEPT ![w] = None]
    /\ calls' = [calls EXCEPT ![w] = 0]
    /\ UNCHANGED << shared, http >>

(***************************************************************************)
(* POST /recommend: an async handler without an await, so it runs to its   *)
(* end in one step of the event loop.                                      *)
(***************************************************************************)
RecommendRequest(favorite_menu, todays_menu) ==
    [favorite_menu |-> favorite_menu, todays_menu |-> todays_menu]

HTTPException(status_code, detail) ==
    [classes |-> {"HTTPException", "Exception"}, msg |-> << >>,
     status_code |-> status_code, detail |-> detail]

\* the body of the try block; the provider is not called (the TODO)
RecommendTry(req) ==
    IF req.favorite_menu = << >>
    THEN [ok |-> FALSE, exc |-> HTTPException(400, FAVORITE_MENU_EMPTY), calls |-> 0]
    ELSE IF req.todays_menu = << >>
    THEN [ok |-> FALSE, exc |-> HTTPException(400, TODAYS_MENU_EMPTY), calls |-> 0]
    ELSE [ok |-> TRUE, value |-> << >>, calls |-> 0]

HttpResponse(status, recommendation_, detail) ==
    [status |-> status, recommendation |-> recommendation_, detail |-> detail]

\* a plausible slip: no `except HTTPException: raise` before the generic clause
RecommendExceptGeneric(r) ==
    IF r.ok THEN HttpResponse(200, Some(r.value), None)
    ELSE HttpResponse(500, None, Some(FAILED_TO_GENERATE \o Str(r.exc)))

\* the except clauses in source order, then the framework's translation of
\* the HTTPException that leaves the handler
RecommendExcept(r) ==
    IF r.ok THEN HttpResponse(200, Some(r.value), None)
    ELSE IF IsInstance(r.exc, "HTTPException")
    THEN HttpResponse(r.exc.status_code, None, Some(r.exc.detail))
    ELSE HttpResponse(500, None, Some(FAILED_TO_GENERATE \o Str(r.exc)))

recommend ==
    /\ \E favs \in env.http_lists, menu \in env.http_lists :
        LET req == RecommendRequest(favs, menu)
            r == RecommendTry(req)
        IN  http' = Some([request |-> req, response |-> RecommendExcept(r),
                          calls |-> r.calls])
    /\ UNCHANGED << shared, pc, request, prompt, reply, recommendation, exc, response,
                    calls >>

(***************************************************************************)
(* Specifications                                                          *)
(***************************************************************************)
Next ==
    \/ \E w \in env.workers : RecommendMeal_Begin(w)
    \/ \E w \in env.workers : ProviderReply(w)
    \/ \E w \in env.workers : RecommendMeal_Return(w)
    \/ \E w \in env.workers : RecommendMeal_Except(w)
    \/ \E w \in env.workers : Release(w)
    \/ recommend

\* one RPC invocation at a time beside the HTTP listener, all inputs
Spec == Init /\ [][Next]_vars

\* the RPC pool beside the HTTP listener, a few inputs
PoolSpec == InitPool /\ [][Next]_vars

\* A thread that can take a step takes it: the provider call is bounded by
\* the 30 s timeout, and the handler's own code runs to its return.
Fairness ==
    \A w \in Workers :
        /\ WF_vars(ProviderReply(w))
        /\ WF_vars(RecommendMeal_Return(w))
        /\ WF_vars(RecommendMeal_Except(w))

FairSpec == Init /\ [][Next]_vars /\ Fairness

(***************************************************************************)
(* Vocabulary of the properties                                            *)
(***************************************************************************)
Serving(w) == request[w] # None

favorites_of(w) == request[w][1].favorite_meals

menu_of(w) == MenuNames(request[w][1].today_menu)

name_of(w) == response[w][1].recommended_meal_name

reasoning_of(w) == response[w][1].reasoning

\* the provider call of w's invocation failed: no credential, or the endpoint
\* did anything but deliver a completion text
ProviderFailed(w) ==
    /\ calls[w] > 0
    /\ \/ llm.api_key = None
       \/ reply[w] # None /\ reply[w][1].kind # "Content"

\* everything a worker thread holds for its invocation
Local(w) ==
    << pc[w], request[w], prompt[w], reply[w], recommendation[w], exc[w],
       response[w], calls[w] >>

(***************************************************************************)
(* C1: a request with empty favorite_meals, whatever its menu, gets the    *)
(* name "No recommendation available" with the reasoning "No favorite      *)
(* meals provided", and the provider is not called.                        *)
(***************************************************************************)
C1_EmptyFavorites ==
    \A w \in Workers :
        (Serving(w) /\ favorites_of(w) = << >>) =>
            /\ pc[w] = "NoFavorites"
            /\ response[w] = Some(Response(NO_RECOMMENDATION, NO_FAVORITES_REASON))
            /\ calls[w] = 0
            /\ reply[w] = None

C1_Witness ==
    \E w \in Workers :
        /\ Serving(w) /\ favorites_of(w) = << >> /\ menu_of(w) = << >>
        /\ pc[w] = "NoFavorites"

(***************************************************************************)
(* C2: a request with favorites and an empty today_menu gets the name "No  *)
(* recommendation available" with the reasoning "No meals available        *)
(* today", and the provider is not called.                                 *)
(***************************************************************************)
C2_EmptyMenu ==
    \A w \in Workers :
        (Serving(w) /\ favorites_of(w) # << >> /\ menu_of(w) = << >>) =>
            /\ pc[w] = "NoMenu"
            /\ response[w] = Some(Response(NO_RECOMMENDATION, NO_MENU_REASON))
            /\ calls[w] = 0
            /\ reply[w] = None

C2_Witness ==
    \E w \in Workers :
        /\ Serving(w) /\ Len(favorites_of(w)) = 2 /\ menu_of(w) = << >>
        /\ pc[w] = "NoMenu"

(***************************************************************************)
(* C3: when the provider call of a request with both lists non-empty       *)
(* fails, for whatever reason, the invocation ends as ProviderFailure: the *)
(* name is "Error generating recommendation" and the reasoning contains    *)
(* the text of the error (of the exception raised and, for a transport     *)
(* failure, of its cause); it never ends as a success or as "No            *)
(* recommendation available".                                              *)
(***************************************************************************)
C3_ProviderFailure ==
    \A w \in Workers :
        (Serving(w) /\ ProviderFailed(w)) =>
            /\ favorites_of(w) # << >> /\ menu_of(w) # << >>
            /\ pc[w] \in {"Raised", "ProviderFailure"}
            /\ exc[w] # None
            /\ pc[w] = "ProviderFailure" =>
                /\ name_of(w) = ERROR_NAME
                /\ name_of(w) # NO_RECOMMENDATION
                /\ IsInfix(Str(exc[w][1]), reasoning_of(w))
                /\ llm.api_key = None => IsInfix(API_KEY_REQUIRED, reasoning_of(w))
                /\ (reply[w] # None /\ reply[w][1] \in TransportFailures) =>
                        IsInfix(reply[w][1].text, reasoning_of(w))

C3_Witness ==
    \E w \in Workers :
        /\ pc[w] = "ProviderFailure"
        /\ reply[w] # None /\ reply[w][1].kind = "Timeout"

(***************************************************************************)
(* C4: RecommendMeal is total.  Every invocation reaches one of the four   *)
(* outcomes NoFavorites, NoMenu, ProviderFailure, Done and keeps it until  *)
(* the response is handed over; the response has both fields; no exception *)
(* leaves RecommendMeal.                                                   *)
(***************************************************************************)
C4_Safe ==
    \A w \in Workers :
        /\ pc[w] \in {"Idle", "Invoke", "Normalize", "Raised"} \cup Terminal
        /\ pc[w] \in Terminal <=> response[w] # None
        /\ response[w] # None =>
            /\ DOMAIN response[w][1] = {"recommended_meal_name", "reasoning"}
            /\ reasoning_of(w) # << >>
            /\ pc[w] \in {"NoFavorites", "NoMenu"} => name_of(w) = NO_RECOMMENDATION
            /\ pc[w] = "ProviderFailure" <=> exc[w] # None

C4_Stable ==
    \A w \in Workers :
        pc[w] \in Terminal => (Local(w)' = Local(w) \/ pc'[w] = "Idle")

\* C4: every invocation keeps to the four outcomes, holds its outcome until
\* handed over, raises nothing outward, and every started invocation ends.
C4_Total ==
    /\ []C4_Safe
    /\ [][C4_Stable]_vars
    /\ \A w \in Workers : (pc[w] # "Idle") ~> (pc[w] \in Terminal)

C4_Witness ==
    \E w \in Workers :
        /\ pc[w] = "ProviderFailure"
        /\ IsInstance(exc[w][1], "AttributeError")
        /\ response[w] # None

(***************************************************************************)
(* C5: when the provider call succeeds with text t, the name is t without  *)
(* its leading and trailing whitespace, nothing else changed, and the      *)
(* reasoning is "Recommended based on your favorites: " followed by the    *)
(* favorites in input order, separated by ", ".                            *)
(***************************************************************************)
\* n is t with exactly its leading and trailing whitespace removed
IsTrimOf(n, t) ==
    \E i, j \in 0 .. Len(t) :
        /\ i + j <= Len(t)
        /\ n = SubSeq(t, i + 1, Len(t) - j)
        /\ \A k \in 1 .. i : IsSpace(t[k])
        /\ \A k \in (Len(t) - j + 1) .. Len(t) : IsSpace(t[k])
        /\ n # << >> => (~IsSpace(n[1]) /\ ~IsSpace(n[Len(n)]))

\* the first n items, each after the first preceded by ", "
RECURSIVE Listed(_, _)
Listed(items, n) ==
    IF n = 0 THEN << >>
    ELSE IF n = 1 THEN items[1]
    ELSE Listed(items, n - 1) \o << ",", " " >> \o items[n]

\* C5: on success the name is the trimmed answer and the reasoning lists the
\* favorites in input order.
C5_TrimmedAnswer ==
    \A w \in Workers :
        (Serving(w) /\ reply[w] # None /\ reply[w][1].kind = "Content"
                    /\ pc[w] \in Terminal) =>
            /\ pc[w] = "Done"
            /\ IsTrimOf(name_of(w), reply[w][1].text)
            /\ reasoning_of(w) = DONE_PREFIX \o Listed(favorites_of(w), Len(favorites_of(w)))

C5_Witness ==
    \E w \in Workers :
        /\ pc[w] = "Done"
        /\ reply[w][1].text = PADDED_PIZZA
        /\ name_of(w) = Pizza
        /\ favorites_of(w) = << Pasta, Pizza >>

(***************************************************************************)
(* C6: an invocation calls the provider at most once: once when both lists *)
(* are non-empty, and not again after the call returned or failed; the     *)
(* step after a failure is the ProviderFailure outcome, the step after an  *)
(* answer is Done even when the answer is no menu entry.                   *)
(***************************************************************************)
C6_CallCount ==
    \A w \in Workers :
        /\ calls[w] <= 1
        /\ pc[w] \in {"Invoke", "Normalize", "Raised", "ProviderFailure", "Done"} =>
                calls[w] = 1
        /\ (Serving(w) /\ favorites_of(w) # << >> /\ menu_of(w) # << >>) => calls[w] = 1

C6_NoRetry ==
    \A w \in Workers :
        /\ (pc[w] = "Raised" /\ pc'[w] # "Raised") =>
                (pc'[w] = "ProviderFailure" /\ calls'[w] = calls[w])
        /\ (pc[w] = "Normalize" /\ pc'[w] # "Normalize") =>
                (pc'[w] = "Done" /\ calls'[w] = calls[w])
        /\ calls'[w] > calls[w] => pc[w] = "Idle"

\* C6: at most one provider call per invocation, and no retry after it.
C6_SingleCall == []C6_CallCount /\ [][C6_NoRetry]_vars

C6_Witness ==
    \E w \in Workers :
        /\ pc[w] = "Done" /\ calls[w] = 1
        /\ \A i \in DOMAIN menu_of(w) : menu_of(w)[i] # name_of(w)

(***************************************************************************)
(* C7: POST /recommend answers 400 when favorite_menu or todays_menu is    *)
(* empty, favorite_menu being checked first; the 400 is not turned into a  *)
(* 500; the provider is not called for such a request.                     *)
(***************************************************************************)
C7_EmptyListIs400 ==
    http # None =>
        LET req == http[1].request
            res == http[1].response
        IN  /\ req.favorite_menu = << >> =>
                (res.status = 400 /\ res.detail = Some(FAVORITE_MENU_EMPTY))
            /\ (req.favorite_menu # << >> /\ req.todays_menu = << >>) =>
                (res.status = 400 /\ res.detail = Some(TODAYS_MENU_EMPTY))
            /\ (req.favorite_menu = << >> \/ req.todays_menu = << >>) =>
                (http[1].calls = 0 /\ res.recommendation = None)
            /\ res.status # 500

C7_Witness ==
    /\ http # None
    /\ http[1].request.favorite_menu = << >>
    /\ http[1].request.todays_menu = << >>
    /\ http[1].response.status = 400

(***************************************************************************)
(* C8: for non-empty lists, POST /recommend returns the name the RPC       *)
(* method returns for the same favorites, menu and provider answer.        *)
(***************************************************************************)
C8_HttpReturnsEngineName ==
    \A w \in Workers :
        (/\ http # None
         /\ pc[w] = "Done"
         /\ http[1].request.favorite_menu = favorites_of(w)
         /\ http[1].request.todays_menu = menu_of(w)) =>
            /\ http[1].response.status = 200
            /\ http[1].response.recommendation = Some(name_of(w))

(***************************************************************************)
(* C9: a successful RecommendMeal returns a name that is one of the names  *)
(* of the request's today_menu.                                            *)
(***************************************************************************)
C9_NameIsOnMenu ==
    \A w \in Workers :
        pc[w] = "Done" => \E i \in DOMAIN menu_of(w) : menu_of(w)[i] = name_of(w)

(***************************************************************************)
(* C10: concurrent invocations do not interfere.  A step of one worker, or *)
(* of the HTTP listener, changes nothing another worker holds; the shared  *)
(* provider client and prompt template stay as constructed; two            *)
(* invocations with the same request and the same provider behaviour get   *)
(* the same response whatever ran in between.                              *)
(***************************************************************************)
C10_SharedAsConstructed ==
    /\ llm = OpenWebUILLM(llm.api_key)
    /\ recommendation_prompt = PromptTemplate

C10_OwnInputsOnly ==
    \A w, v \in Workers :
        (/\ pc[w] \in Terminal /\ pc[v] \in Terminal
         /\ request[w] = request[v] /\ reply[w] = reply[v]) =>
            response[w] = response[v]

C10_Frame ==
    /\ llm' = llm
    /\ recommendation_prompt' = recommendation_prompt
    /\ \A w \in Workers :
        Local(w)' # Local(w) =>
            /\ http' = http
            /\ \A v \in Workers \ {w} : Local(v)' = Local(v)

\* C10: shared objects stay as constructed, responses depend on own inputs
\* only, and no step touches another worker's locals.
C10_NoInterference ==
    /\ [](C10_SharedAsConstructed /\ C10_OwnInputsOnly)
    /\ [][C10_Frame]_vars

C10_Witness ==
    \E w, v \in Workers :
        /\ w # v
        /\ pc[w] = "Done" /\ pc[v] = "Done"
        /\ request[w] = request[v] /\ reply[w] = reply[v]
        /\ http # None
====
